---- MODULE Spec2Model ----
(***************************************************************************)
(* Room registry of the Renomate cost-calculation spreadsheet              *)
(* (src/scripts.ts): the three operator commands addNewRooms, renameRooms  *)
(* and deleteRooms, which keep the room sheets of the spreadsheet and the  *)
(* room rows of the dashboard sheet in step.                               *)
(*                                                                         *)
(* A string is modelled as a sequence of tokens; the token " " is white    *)
(* space, so that String.prototype.trim is computed and not assumed.       *)
(* A dashboard row is its first-column rich-text cell, a record            *)
(* [text, link]; a sheet is a record [name, id].                           *)
(***************************************************************************)
EXTENDS Integers, Sequences, FiniteSets, TLC

(***************************************************************************)
(* Bounds of the model.                                                    *)
(***************************************************************************)
\* rows of the AddRooms range
MaxBatch == 2
\* rows of the ConfigExistingRooms range
MaxSel == 2
\* rows the dashboard may grow to
MaxRows == 5
\* length of the number lists handed to groupAdjacentNumbers on its own
MaxLen == 4
\* largest row number in those lists
MaxPos == 6
\* entries of the batches handed to createRoomPairs on its own
MaxEntries == 3
\* rows of the first columns handed to deleteInDashboard on its own
MaxColumn == 4
\* names handed to deleteInDashboard on its own
MaxNames == 3

(***************************************************************************)
(* Strings.                                                                *)
(***************************************************************************)
SP == " "

RECURSIVE trimStart(_)
trimStart(s) ==
  IF s # <<>> /\ Head(s) = SP THEN trimStart(Tail(s)) ELSE s

RECURSIVE trimEnd(_)
trimEnd(s) ==
  IF s # <<>> /\ s[Len(s)] = SP THEN trimEnd(SubSeq(s, 1, Len(s) - 1)) ELSE s

\* String.prototype.trim
trim(s) == trimEnd(trimStart(s))

\* the elements of a sequence
Range(s) == {s[i] : i \in 1..Len(s)}

Min(a, b) == IF a < b THEN a ELSE b

(***************************************************************************)
(* Configuration of the script.                                            *)
(***************************************************************************)
DASHBOARD_SHEET == <<"Dashboard">>
CONFIG_SHEET == <<"Konfigurera projekt">>
BUILDER_SHEET == <<"Byggbolag">>

\* BUDGETING_TYPES[type]; a key the object lacks reads as undefined, which the
\* template literal prints as "undefined"
BUDGETING_TYPES(type) ==
  CASE type = "Enkel (rekommenderad)" -> "(enkel)"
    [] type = "Avancerad" -> "(avancerad)"
    [] OTHER -> "undefined"

\* the link of a cell built from a sheet that does not exist: #gid=undefined
Undefined == 0

(***************************************************************************)
(* The operator's inputs.                                                  *)
(***************************************************************************)
\* the first-column texts of the two boundary rows of the dashboard, and of
\* a row below the sum row whose text a room may be named after
MaterialText == <<"M">>
SumText == <<"S">>
FooterText == <<"b">>

BlankRow == <<<<>>, <<>>, "">>

\* what the operator may type into one row of the AddRooms range:
\* [roomName, template, type]
AddRows ==
  { BlankRow,
    <<<<SP, "a">>, <<"T">>, "Enkel (rekommenderad)">>,
    <<<<"b">>, <<"T">>, "Avancerad">>,
    <<<<"b">>, <<"X">>, "Enkel (rekommenderad)">>,
    <<<<SP>>, <<>>, "">> }

AddTables == [1..MaxBatch -> AddRows]

\* a cleared AddRooms range
ClearedTable == [i \in 1..MaxBatch |-> BlankRow]

\* the room names the rows of the ConfigExistingRooms range may hold
RoomNames == {<<"a">>, <<"b">>}

\* the ConfigExistingRooms range: rows [checkbox, roomName]
ConfigTables == [1..MaxSel -> BOOLEAN \X RoomNames]

\* the ticked rows of the range once every checkbox is cleared
UncheckedConfig == <<>>

\* what the operator may type into a prompt
PromptTexts == {<<SP>>, <<SP, "a">>, <<"b">>}

(***************************************************************************)
(* State.                                                                  *)
(***************************************************************************)
VARIABLES
  sheets,             \* the sheets of the spreadsheet: records [name, id]
  dashboard,          \* first column of the dashboard: records [text, link]
  materialRow,        \* row of the named range DashboardMaterialRow, 0 if lost
  sumRow,             \* row of the named range DashboardSumRow, 0 if lost
  addRooms,           \* content of the AddRooms range
  config,             \* the ticked rows of the ConfigExistingRooms range
  pc,                 \* position of the running command, "idle" if none
  nameTemplatePairs,  \* addNewRooms: the validated pairs
  selectedRooms,      \* renameRooms, deleteRooms: the selected names
  sheetNames,         \* renameRooms: names of all sheets when it started
  renameMap,          \* requestNewRoomNames: pairs <<oldName, newName>>
  oldIdx,             \* requestNewRoomNames: index of the name being asked
  ui,                 \* what the running command has shown the operator
  trace,              \* calls the running command has made on the spreadsheet
  del,                \* deleteInDashboard: what it read, computed and removed
  answer,             \* the operator's last answer to the running command
  before,             \* what the running command found when it started
  args,               \* a function on its own: its arguments
  result              \* a function on its own: what it returned

vars == <<sheets, dashboard, materialRow, sumRow, addRooms, config, pc,
          nameTemplatePairs, selectedRooms, sheetNames, renameMap, oldIdx,
          ui, trace, del, answer, before, args, result>>

locals == <<nameTemplatePairs, selectedRooms, sheetNames, renameMap, oldIdx>>

pure == <<args, result>>

\* a call on the spreadsheet
Call(op, name, row, num) == [op |-> op, name |-> name, row |-> row, num |-> num]

NoDel == [firstColumnValues |-> <<>>, deleteIndexes |-> <<>>, removed |-> {}]

NoAnswer == [button |-> "NONE", text |-> <<>>]

NoBefore == [sheets |-> {}, dashboard |-> <<>>, materialRow |-> 0,
             sumRow |-> 0, addRooms |-> <<>>]

\* a message shown to the operator
Msg(text, index, names) == [text |-> text, index |-> index, names |-> names]

NoUi == [kind |-> "none", msgs |-> <<>>]
Toast(text) == [kind |-> "toast", msgs |-> <<Msg(text, 0, <<>>)>>]
Alert(msgs) == [kind |-> "alert", msgs |-> msgs]

\* ss.getSheets().map((sheet) => sheet.getName())
SheetNames(ss) == {s.name : s \in ss}

\* ss.getSheetByName(name) is not null
HasSheet(ss, name) == name \in SheetNames(ss)

\* ss.getSheetByName(name)
getSheetByName(ss, name) == CHOOSE s \in ss : s.name = name

\* the id of a sheet copied into the spreadsheet: one that no sheet has
FreshId(ss, db) ==
  LET used == {s.id : s \in ss}
  IN CHOOSE i \in 1..(Cardinality(used) + 1) :
       i \notin used /\ \A j \in 1..(i - 1) : j \in used

Cell(text, link) == [text |-> text, link |-> link]

TemplateSheets ==
  { [name |-> <<"T", SP, "(enkel)">>, id |-> 1],
    [name |-> <<"T", SP, "(avancerad)">>, id |-> 2] }

\* the sheets of the spreadsheet that are no rooms
FixedSheets ==
  TemplateSheets \cup
    { [name |-> DASHBOARD_SHEET, id |-> 3],
      [name |-> CONFIG_SHEET, id |-> 4],
      [name |-> BUILDER_SHEET, id |-> 5] }

Installed ==
  /\ sheets = FixedSheets
  /\ dashboard = <<Cell(MaterialText, Undefined), Cell(SumText, Undefined),
                   Cell(FooterText, Undefined)>>
  /\ materialRow = 1
  /\ sumRow = 2
  /\ addRooms = ClearedTable
  /\ config = UncheckedConfig
  /\ nameTemplatePairs = <<>>
  /\ selectedRooms = <<>>
  /\ sheetNames = {}
  /\ renameMap = <<>>
  /\ oldIdx = 0
  /\ ui = NoUi
  /\ trace = <<>>
  /\ del = NoDel
  /\ answer = NoAnswer
  /\ before = NoBefore

Init ==
  /\ Installed
  /\ pc = "idle"
  /\ args = <<>>
  /\ result = <<>>

(***************************************************************************)
(* The dashboard sheet.                                                    *)
(***************************************************************************)
\* sheet.insertRows(row, num): num blank rows before row
insertRows(db, row, num) ==
  SubSeq(db, 1, row - 1) \o [i \in 1..num |-> Cell(<<>>, Undefined)]
    \o SubSeq(db, row, Len(db))

\* where a named range is after insertRows(row, num)
rowAfterInsert(r, row, num) == IF r >= row THEN r + num ELSE r

\* range.setRichTextValues(values) on the rows from row on
setRichTextValues(db, row, values) ==
  [i \in 1..Len(db) |->
     IF i >= row /\ i < row + Len(values) THEN values[i - row + 1] ELSE db[i]]

\* deleteRows removing one row more than asked
deleteRowsThrough(rows, position, numRows) ==
  SubSeq(rows, 1, Min(position - 1, Len(rows)))
    \o SubSeq(rows, position + numRows + 1, Len(rows))

\* the rows left by sheet.deleteRows(position, numRows); rows past the last
\* row with content are blank rows of the grid
deleteRows(rows, position, numRows) ==
  SubSeq(rows, 1, Min(position - 1, Len(rows)))
    \o SubSeq(rows, position + numRows, Len(rows))

(***************************************************************************)
(* Add rooms.                                                              *)
(***************************************************************************)
RECURSIVE Concat(_)
Concat(ss) == IF ss = <<>> THEN <<>> ELSE Head(ss) \o Concat(Tail(ss))

\* arr.indexOf(x), 1-based, for an x that is in arr
indexOf(arr, x) == CHOOSE i \in 1..Len(arr) :
                     arr[i] = x /\ \A j \in 1..(i - 1) : arr[j] # x

\* arr.filter((x, index, arr) => arr.indexOf(x) !== index)
RECURSIVE repeatsFrom(_, _)
repeatsFrom(arr, i) ==
  IF i > Len(arr) THEN <<>>
  ELSE (IF indexOf(arr, arr[i]) # i THEN <<arr[i]>> ELSE <<>>)
         \o repeatsFrom(arr, i + 1)

\* rowErrors without the trim of line 55
rowErrorsUntrimmed(row, index, names) ==
  LET roomName == row[1] IN
    (IF roomName = <<>>
       THEN <<Msg("Namn saknas till rum", index, <<>>)>> ELSE <<>>)
    \o (IF row[2] = <<>>
          THEN <<Msg("Mall saknas till rum", index, <<>>)>> ELSE <<>>)
    \o (IF row[3] = ""
          THEN <<Msg("Budgeteringsalternativ saknas till rum", index, <<>>)>>
          ELSE <<>>)
    \o (IF roomName \in names
          THEN <<Msg("Rum finns redan", 0, <<roomName>>)>> ELSE <<>>)

\* the messages one row of the batch adds to error
rowErrors(row, index, names) ==
  LET roomName == trim(row[1]) IN
    (IF roomName = <<>>
       THEN <<Msg("Namn saknas till rum", index, <<>>)>> ELSE <<>>)
    \o (IF row[2] = <<>>
          THEN <<Msg("Mall saknas till rum", index, <<>>)>> ELSE <<>>)
    \o (IF row[3] = ""
          THEN <<Msg("Budgeteringsalternativ saknas till rum", index, <<>>)>>
          ELSE <<>>)
    \o (IF roomName \in names
          THEN <<Msg("Rum finns redan", 0, <<roomName>>)>> ELSE <<>>)

\* createRoomPairs without the duplicates of lines 62-65
createRoomPairsNoDuplicates(newRooms, names) ==
  [ error |-> Concat([i \in 1..Len(newRooms) |->
                        rowErrors(newRooms[i], i, names)]),
    nameTemplatePairs |->
      [i \in 1..Len(newRooms) |->
         <<trim(newRooms[i][1]),
           newRooms[i][2] \o <<SP, BUDGETING_TYPES(newRooms[i][3])>> >>] ]

\* createRoomPairs throwing at the first message it finds
createRoomPairsFirstError(newRooms, names) ==
  LET r == createRoomPairsNoDuplicates(newRooms, names)
      duplicates == repeatsFrom([i \in 1..Len(newRooms) |->
                                   trim(newRooms[i][1])], 1)
      all == r.error \o
               (IF Len(duplicates) > 0
                  THEN <<Msg("Rumnamn upprepas", 0, duplicates)>> ELSE <<>>)
  IN [ error |-> IF all = <<>> THEN <<>> ELSE <<Head(all)>>,
       nameTemplatePairs |-> r.nameTemplatePairs ]

\* createRoomPairs(newRooms, sheetNames): error is what it throws, <<>> when
\* it returns nameTemplatePairs
createRoomPairs(newRooms, names) ==
  LET pairs == [i \in 1..Len(newRooms) |->
                  <<trim(newRooms[i][1]),
                    newRooms[i][2] \o <<SP, BUDGETING_TYPES(newRooms[i][3])>> >>]
      perRow == Concat([i \in 1..Len(newRooms) |->
                          rowErrors(newRooms[i], i, names)])
      duplicates == repeatsFrom([i \in 1..Len(pairs) |-> pairs[i][1]], 1)
  IN [ error |-> perRow \o
                   (IF Len(duplicates) > 0
                      THEN <<Msg("Rumnamn upprepas", 0, duplicates)>>
                      ELSE <<>>),
       nameTemplatePairs |-> pairs ]

\* createNewRoomSheets(ss, nameTemplatePairs): the sheets afterwards
RECURSIVE createNewRoomSheets(_, _, _)
createNewRoomSheets(ss, db, pairs) ==
  IF pairs = <<>> THEN ss
  ELSE LET roomName == Head(pairs)[1]
           template == Head(pairs)[2]
       IN createNewRoomSheets(
            IF HasSheet(ss, template)
              THEN ss \cup {[name |-> roomName, id |-> FreshId(ss, db)]}
              ELSE ss,
            db, Tail(pairs))

\* the calls createNewRoomSheets makes
RECURSIVE copyCalls(_, _)
copyCalls(ss, pairs) ==
  IF pairs = <<>> THEN <<>>
  ELSE (IF HasSheet(ss, Head(pairs)[2])
          THEN <<Call("copyTo", Head(pairs)[1], 0, 0)>> ELSE <<>>)
         \o copyCalls(ss, Tail(pairs))

\* the rich text values addNewRoomsToDashboard builds
linkedCells(ss, roomNames) ==
  [i \in 1..Len(roomNames) |->
     Cell(roomNames[i],
          IF HasSheet(ss, roomNames[i])
            THEN getSheetByName(ss, roomNames[i]).id ELSE Undefined)]

\* the dashboard after addNewRoomsToDashboard(ss, roomNames)
addNewRoomsToDashboard(ss, db, insertRow, roomNames) ==
  setRichTextValues(insertRows(db, insertRow, Len(roomNames)), insertRow,
                    linkedCells(ss, roomNames))

\* roomRow.join('') !== ''
NonBlank(roomRow) == ~(roomRow[1] = <<>> /\ roomRow[2] = <<>> /\ roomRow[3] = "")

Seq1(f) == [i \in 1..Len(f) |-> f[i]]

\* what a command finds when it starts, table being the AddRooms range
Found(table) ==
  [sheets |-> sheets, dashboard |-> dashboard, materialRow |-> materialRow,
   sumRow |-> sumRow, addRooms |-> table]

\* addNewRooms, lines 107-118: the operator has filled in the AddRooms range
\* and runs the command
AddNewRooms ==
  /\ pc = "idle"
  /\ answer' = NoAnswer
  /\ UNCHANGED pure
  /\ \E table \in AddTables :
       LET newRoomRows == SelectSeq(Seq1(table), NonBlank)
           r == createRoomPairs(newRoomRows, SheetNames(sheets))
       IN /\ Len(dashboard) + Len(newRoomRows) <= MaxRows
          /\ addRooms' = table
          /\ before' = Found(table)
          /\ IF r.error # <<>>
               THEN /\ ui' = Alert(r.error)
                    /\ pc' = "done"
                    /\ nameTemplatePairs' = <<>>
               ELSE IF Len(r.nameTemplatePairs) = 0
                 THEN /\ ui' = Toast("Det finns inga nya rum att lagga till")
                      /\ pc' = "done"
                      /\ nameTemplatePairs' = <<>>
                 ELSE /\ ui' = NoUi
                      /\ pc' = "createNewRoomSheets"
                      /\ nameTemplatePairs' = r.nameTemplatePairs
  /\ trace' = <<>>
  /\ del' = NoDel
  /\ UNCHANGED <<sheets, dashboard, materialRow, sumRow, config,
                 selectedRooms, sheetNames, renameMap, oldIdx>>

\* addNewRooms, line 119
CreateNewRoomSheets ==
  /\ pc = "createNewRoomSheets"
  /\ UNCHANGED <<answer, before, pure>>
  /\ sheets' = createNewRoomSheets(sheets, dashboard, nameTemplatePairs)
  /\ trace' = trace \o copyCalls(sheets, nameTemplatePairs)
  /\ pc' = "addNewRoomsToDashboard"
  /\ UNCHANGED <<dashboard, materialRow, sumRow, addRooms, config, ui, del,
                 locals>>

\* AddNewRoomsToDashboard reading the sum row again after insertRows and
\* writing the cells there
AddNewRoomsToDashboardRereading ==
  /\ pc = "addNewRoomsToDashboard"
  /\ UNCHANGED <<answer, before, pure>>
  /\ LET newRooms == [i \in 1..Len(nameTemplatePairs) |->
                        nameTemplatePairs[i][1]]
         moved == rowAfterInsert(sumRow, sumRow, Len(newRooms))
     IN IF sumRow = 0
          THEN /\ ui' = Alert(<<Msg("TypeError", 0, <<>>)>>)
               /\ pc' = "done"
               /\ UNCHANGED <<dashboard, materialRow, sumRow, trace>>
          ELSE /\ dashboard' =
                    setRichTextValues(
                      insertRows(dashboard, sumRow, Len(newRooms)), moved,
                      linkedCells(sheets, newRooms))
               /\ materialRow' =
                    rowAfterInsert(materialRow, sumRow, Len(newRooms))
               /\ sumRow' = moved
               /\ trace' = trace \o
                    << Call("getRow", <<>>, sumRow, 0),
                       Call("insertRows", <<>>, sumRow, Len(newRooms)),
                       Call("getRow", <<>>, moved, 0),
                       Call("setRichTextValues", <<>>, moved, Len(newRooms)) >>
               /\ pc' = "clearContent"
               /\ ui' = ui
  /\ UNCHANGED <<sheets, addRooms, config, del, locals>>

\* addNewRooms, line 120; a lost DashboardSumRow range makes getRow throw,
\* which line 123 reports
AddNewRoomsToDashboard ==
  /\ pc = "addNewRoomsToDashboard"
  /\ UNCHANGED <<answer, before, pure>>
  /\ LET newRooms == [i \in 1..Len(nameTemplatePairs) |->
                        nameTemplatePairs[i][1]]
     IN IF sumRow = 0
          THEN /\ ui' = Alert(<<Msg("TypeError", 0, <<>>)>>)
               /\ pc' = "done"
               /\ UNCHANGED <<dashboard, materialRow, sumRow, trace>>
          ELSE /\ dashboard' =
                    addNewRoomsToDashboard(sheets, dashboard, sumRow, newRooms)
               /\ materialRow' =
                    rowAfterInsert(materialRow, sumRow, Len(newRooms))
               /\ sumRow' = rowAfterInsert(sumRow, sumRow, Len(newRooms))
               /\ trace' = trace \o
                    << Call("getRow", <<>>, sumRow, 0),
                       Call("insertRows", <<>>, sumRow, Len(newRooms)),
                       Call("setRichTextValues", <<>>, sumRow, Len(newRooms)) >>
               /\ pc' = "clearContent"
               /\ ui' = ui
  /\ UNCHANGED <<sheets, addRooms, config, del, locals>>

\* addNewRooms, line 121
ClearContent ==
  /\ pc = "clearContent"
  /\ UNCHANGED <<answer, before, pure>>
  /\ addRooms' = ClearedTable
  /\ trace' = Append(trace, Call("clearContent", <<>>, 0, 0))
  /\ pc' = "done"
  /\ UNCHANGED <<sheets, dashboard, materialRow, sumRow, config, ui, del,
                 locals>>

(***************************************************************************)
(* Rename rooms.                                                           *)
(***************************************************************************)
\* getSelectedRooms(configExistingRoomsRange)
getSelectedRooms(values) ==
  LET checked == SelectSeq(Seq1(values), LAMBDA row : row[1])
  IN [i \in 1..Len(checked) |-> checked[i][2]]

\* renameMap.has(key), renameMap.get(key), [...renameMap.values()]
mapHas(map, key) == \E i \in 1..Len(map) : map[i][1] = key
mapGet(map, key) == map[CHOOSE i \in 1..Len(map) : map[i][1] = key][2]
mapValues(map) == {map[i][2] : i \in 1..Len(map)}

\* renameMap.set(key, value): a key the map has keeps its place
mapSet(map, key, value) ==
  IF mapHas(map, key)
    THEN [i \in 1..Len(map) |->
            IF map[i][1] = key THEN <<key, value>> ELSE map[i]]
    ELSE Append(map, <<key, value>>)

\* what the operator may answer to a prompt, given the texts they may type
ResponsesOf(texts) ==
  {[button |-> "CANCEL", text |-> <<>>]}
    \cup {[button |-> "OK", text |-> t] : t \in texts}

Responses == ResponsesOf(PromptTexts)

\* checkNewRoomName without the branch of line 157
checkNewRoomNameNotAssigned(oldName, responseText, names, map) ==
  LET newRoomName == trim(responseText) IN
    IF newRoomName = <<>>
      THEN Alert(<<Msg("Namn saknas till rum", 0, <<oldName>>)>>)
    ELSE IF newRoomName \in names
      THEN Alert(<<Msg("Rum finns redan", 0, <<newRoomName>>)>>)
    ELSE NoUi

\* requestNewRoomNames, lines 153-157: the alert a response text earns, or
\* none when the name is taken into the map
checkNewRoomName(oldName, responseText, names, map) ==
  LET newRoomName == trim(responseText) IN
    IF newRoomName = <<>>
      THEN Alert(<<Msg("Namn saknas till rum", 0, <<oldName>>)>>)
    ELSE IF newRoomName \in names
      THEN Alert(<<Msg("Rum finns redan", 0, <<newRoomName>>)>>)
    ELSE IF newRoomName \in mapValues(map)
      THEN Alert(<<Msg("Du har redan angett", 0, <<newRoomName>>)>>)
    ELSE NoUi

\* renameSheets(ss, renameMap): the sheets afterwards
RECURSIVE renameSheets(_, _)
renameSheets(ss, map) ==
  IF map = <<>> THEN ss
  ELSE LET oldName == Head(map)[1]
           newName == Head(map)[2]
       IN renameSheets(
            IF HasSheet(ss, oldName)
              THEN (ss \ {getSheetByName(ss, oldName)})
                     \cup {[name |-> newName,
                            id |-> getSheetByName(ss, oldName).id]}
              ELSE ss,
            Tail(map))

\* the calls renameSheets makes
RECURSIVE setNameCalls(_, _)
setNameCalls(ss, map) ==
  IF map = <<>> THEN <<>>
  ELSE (IF HasSheet(ss, Head(map)[1])
          THEN <<Call("setName", Head(map)[2], 0, 0)>> ELSE <<>>)
         \o setNameCalls(renameSheets(ss, <<Head(map)>>), Tail(map))

\* renameInDashboard, line 181: getRange throws unless both named ranges
\* exist and there is at least one row between them
hasRoomsRange(material, sum) ==
  material # 0 /\ sum # 0 /\ sum - material - 1 >= 1

\* renameInDashboard mapping over the whole first column
renameInDashboardWholeColumn(db, material, sum, map) ==
  [i \in 1..Len(db) |->
     IF mapHas(map, db[i].text)
       THEN Cell(mapGet(map, db[i].text), db[i].link)
       ELSE db[i]]

\* renameInDashboard(ss, renameMap): the dashboard afterwards
renameInDashboard(db, material, sum, map) ==
  [i \in 1..Len(db) |->
     IF i > material /\ i < sum /\ mapHas(map, db[i].text)
       THEN Cell(mapGet(map, db[i].text), db[i].link)
       ELSE db[i]]

\* renameRooms, lines 202-210: the operator has ticked rows of the
\* ConfigExistingRooms range and runs the command
RenameRooms ==
  /\ pc = "idle"
  /\ answer' = NoAnswer
  /\ UNCHANGED pure
  /\ \E values \in ConfigTables :
       LET selected == getSelectedRooms(values) IN
         /\ config' = SelectSeq(Seq1(values), LAMBDA row : row[1])
         /\ before' = Found(addRooms)
         /\ IF Len(selected) = 0
              THEN /\ ui' = Toast("Inga rum valda")
                   /\ pc' = "done"
                   /\ UNCHANGED <<selectedRooms, sheetNames, oldIdx>>
              ELSE /\ ui' = NoUi
                   /\ pc' = "prompt"
                   /\ selectedRooms' = selected
                   /\ sheetNames' = SheetNames(sheets)
                   /\ oldIdx' = 1
  /\ renameMap' = <<>>
  /\ trace' = <<>>
  /\ del' = NoDel
  /\ UNCHANGED <<sheets, dashboard, materialRow, sumRow, addRooms,
                 nameTemplatePairs>>

\* Prompt with line 152 returning the map collected so far
PromptKeepsMapOnCancel ==
  /\ pc = "prompt"
  /\ UNCHANGED <<before, pure>>
  /\ \E response \in Responses :
       LET oldName == selectedRooms[oldIdx]
           alert == checkNewRoomName(oldName, response.text, sheetNames,
                                     renameMap)
       IN /\ answer' = response
          /\ IF response.button # "OK"
               THEN /\ pc' = "renameSheets"
                    /\ UNCHANGED <<renameMap, oldIdx, ui>>
               ELSE IF alert # NoUi
                 THEN /\ ui' = alert
                      /\ UNCHANGED <<pc, renameMap, oldIdx>>
                 ELSE /\ renameMap' =
                           mapSet(renameMap, oldName, trim(response.text))
                      /\ ui' = NoUi
                      /\ IF oldIdx = Len(selectedRooms)
                           THEN pc' = "renameSheets" /\ oldIdx' = oldIdx
                           ELSE pc' = pc /\ oldIdx' = oldIdx + 1
  /\ UNCHANGED <<sheets, dashboard, materialRow, sumRow, addRooms, config,
                 nameTemplatePairs, selectedRooms, sheetNames, trace, del>>

\* PromptFor with a refused name ending the command
PromptForOnce(texts) ==
  /\ pc = "prompt"
  /\ UNCHANGED <<before, pure>>
  /\ \E response \in ResponsesOf(texts) :
       LET oldName == selectedRooms[oldIdx]
           alert == checkNewRoomName(oldName, response.text, sheetNames,
                                     renameMap)
       IN /\ answer' = response
          /\ IF response.button # "OK"
               THEN /\ pc' = "done"
                    /\ renameMap' = <<>>
                    /\ UNCHANGED <<oldIdx, ui>>
               ELSE IF alert # NoUi
                 THEN /\ ui' = alert
                      /\ pc' = "done"
                      /\ UNCHANGED <<renameMap, oldIdx>>
                 ELSE /\ renameMap' =
                           mapSet(renameMap, oldName, trim(response.text))
                      /\ ui' = NoUi
                      /\ IF oldIdx = Len(selectedRooms)
                           THEN pc' = "renameSheets" /\ oldIdx' = oldIdx
                           ELSE pc' = pc /\ oldIdx' = oldIdx + 1
  /\ UNCHANGED <<sheets, dashboard, materialRow, sumRow, addRooms, config,
                 nameTemplatePairs, selectedRooms, sheetNames, trace, del>>

\* requestNewRoomNames, lines 151-161: one prompt and the operator's answer,
\* typed from texts; with the last name taken the function returns the map
\* (line 164)
PromptFor(texts) ==
  /\ pc = "prompt"
  /\ UNCHANGED <<before, pure>>
  /\ \E response \in ResponsesOf(texts) :
       LET oldName == selectedRooms[oldIdx]
           alert == checkNewRoomName(oldName, response.text, sheetNames,
                                     renameMap)
       IN /\ answer' = response
          /\ IF response.button # "OK"
               THEN /\ pc' = "done"
                    /\ renameMap' = <<>>
                    /\ UNCHANGED <<oldIdx, ui>>
               ELSE IF alert # NoUi
                 THEN /\ ui' = alert
                      /\ UNCHANGED <<pc, renameMap, oldIdx>>
                 ELSE /\ renameMap' =
                           mapSet(renameMap, oldName, trim(response.text))
                      /\ ui' = NoUi
                      /\ IF oldIdx = Len(selectedRooms)
                           THEN pc' = "renameSheets" /\ oldIdx' = oldIdx
                           ELSE pc' = pc /\ oldIdx' = oldIdx + 1
  /\ UNCHANGED <<sheets, dashboard, materialRow, sumRow, addRooms, config,
                 nameTemplatePairs, selectedRooms, sheetNames, trace, del>>

Prompt == PromptFor(PromptTexts)

\* renameRooms, line 215
RenameSheets ==
  /\ pc = "renameSheets"
  /\ UNCHANGED <<answer, before, pure>>
  /\ sheets' = renameSheets(sheets, renameMap)
  /\ trace' = trace \o setNameCalls(sheets, renameMap)
  /\ pc' = "renameInDashboard"
  /\ UNCHANGED <<dashboard, materialRow, sumRow, addRooms, config, ui, del,
                 locals>>

\* renameRooms, line 216; nothing catches what getRange throws
RenameInDashboard ==
  /\ pc = "renameInDashboard"
  /\ UNCHANGED <<answer, before, pure>>
  /\ IF hasRoomsRange(materialRow, sumRow)
       THEN /\ dashboard' =
                 renameInDashboard(dashboard, materialRow, sumRow, renameMap)
            /\ trace' = trace \o
                 << Call("getRow", <<>>, materialRow, 0),
                    Call("getRow", <<>>, sumRow, 0),
                    Call("getRichTextValues", <<>>, materialRow + 1,
                         sumRow - materialRow - 1),
                    Call("setRichTextValues", <<>>, materialRow + 1,
                         sumRow - materialRow - 1) >>
            /\ pc' = "uncheck"
            /\ ui' = ui
       ELSE /\ ui' = [kind |-> "exception", msgs |-> <<>>]
            /\ pc' = "done"
            /\ UNCHANGED <<dashboard, trace>>
  /\ UNCHANGED <<sheets, materialRow, sumRow, addRooms, config, del, locals>>

\* renameRooms, line 217, and deleteRooms, line 282
Uncheck ==
  /\ pc = "uncheck"
  /\ UNCHANGED <<answer, before, pure>>
  /\ config' = UncheckedConfig
  /\ trace' = Append(trace, Call("uncheck", <<>>, 0, 0))
  /\ pc' = "done"
  /\ UNCHANGED <<sheets, dashboard, materialRow, sumRow, addRooms, ui, del,
                 locals>>

(***************************************************************************)
(* Delete rooms.                                                           *)
(***************************************************************************)
\* deleteSheets(ss, roomNames): the sheets afterwards
RECURSIVE deleteSheets(_, _)
deleteSheets(ss, roomNames) ==
  IF roomNames = <<>> THEN ss
  ELSE deleteSheets(
         IF HasSheet(ss, Head(roomNames))
           THEN ss \ {getSheetByName(ss, Head(roomNames))} ELSE ss,
         Tail(roomNames))

\* the calls deleteSheets makes
RECURSIVE deleteSheetCalls(_, _)
deleteSheetCalls(ss, roomNames) ==
  IF roomNames = <<>> THEN <<>>
  ELSE (IF HasSheet(ss, Head(roomNames))
          THEN <<Call("deleteSheet", Head(roomNames), 0, 0)>> ELSE <<>>)
         \o deleteSheetCalls(deleteSheets(ss, <<Head(roomNames)>>),
                             Tail(roomNames))

reverse(s) == [i \in 1..Len(s) |-> s[Len(s) + 1 - i]]

\* the loop of groupAdjacentNumbers, lines 242-245, from index i on
RECURSIVE groupFrom(_, _, _)
groupFrom(numbers, i, groups) ==
  IF i > Len(numbers) THEN groups
  ELSE IF i = 1 \/ numbers[i] # numbers[i - 1] + 1
    THEN groupFrom(numbers, i + 1, Append(groups, <<numbers[i], 1>>))
    ELSE groupFrom(numbers, i + 1,
                   [groups EXCEPT ![Len(groups)][2] = @ + 1])

\* groupAdjacentNumbers without the reverse of line 246
groupAdjacentNumbersForward(numbers) == groupFrom(numbers, 1, <<>>)

\* groupAdjacentNumbers with the else branch of line 244 never taken
groupEachNumber(numbers) ==
  reverse([i \in 1..Len(numbers) |-> <<numbers[i], 1>>])

\* groupAdjacentNumbers(numbers)
groupAdjacentNumbers(numbers) == reverse(groupFrom(numbers, 1, <<>>))

\* firstColumnValues.findIndex(([row]) => row === roomName) + 1
findIndex1(firstColumnValues, roomName) ==
  IF roomName \in Range(firstColumnValues)
    THEN indexOf(firstColumnValues, roomName) ELSE 0

\* deleteInDashboard, lines 256-258
deleteIndexes(firstColumnValues, roomNames) ==
  SelectSeq([i \in 1..Len(roomNames) |->
               findIndex1(firstColumnValues, roomNames[i])],
            LAMBDA index : index # 0)

\* deleteInDashboard, line 260: the rows left after the deleteRows calls
RECURSIVE deleteGroupRows(_, _)
deleteGroupRows(rows, deleteGroups) ==
  IF deleteGroups = <<>> THEN rows
  ELSE deleteGroupRows(
         deleteRows(rows, Head(deleteGroups)[1], Head(deleteGroups)[2]),
         Tail(deleteGroups))

\* deleteInDashboard(ss, roomNames) on the rows 1..Len(db), each row standing
\* for itself: the rows of db that are left, in order
deleteInDashboard(db, roomNames) ==
  deleteGroupRows(
    [i \in 1..Len(db) |-> i],
    groupAdjacentNumbers(
      deleteIndexes([i \in 1..Len(db) |-> db[i].text], roomNames)))

\* where a named range is once only the rows left remain, 0 if its row is gone
rowAfterDelete(r, left) ==
  IF r \in Range(left) THEN indexOf(left, r) ELSE 0

\* deleteRooms, lines 268-275: the operator has ticked rows of the
\* ConfigExistingRooms range and runs the command
DeleteRooms ==
  /\ pc = "idle"
  /\ answer' = NoAnswer
  /\ UNCHANGED pure
  /\ \E values \in ConfigTables :
       LET selected == getSelectedRooms(values) IN
         /\ config' = SelectSeq(Seq1(values), LAMBDA row : row[1])
         /\ before' = Found(addRooms)
         /\ IF Len(selected) = 0
              THEN /\ ui' = Toast("Inga rum valda")
                   /\ pc' = "done"
                   /\ UNCHANGED selectedRooms
              ELSE /\ ui' = [kind |-> "confirm", msgs |->
                               <<Msg("Vill du verkligen ta bort rummen", 0,
                                     selected)>>]
                   /\ pc' = "confirm"
                   /\ selectedRooms' = selected
  /\ trace' = <<>>
  /\ del' = NoDel
  /\ UNCHANGED <<sheets, dashboard, materialRow, sumRow, addRooms,
                 nameTemplatePairs, sheetNames, renameMap, oldIdx>>

\* Confirm with line 278 left out
ConfirmWhateverAnswer ==
  /\ pc = "confirm"
  /\ UNCHANGED <<before, pure>>
  /\ \E response \in {"YES", "NO"} :
       /\ answer' = [button |-> response, text |-> <<>>]
       /\ pc' = "deleteSheets"
  /\ UNCHANGED <<sheets, dashboard, materialRow, sumRow, addRooms, config,
                 ui, trace, del, locals>>

\* deleteRooms, lines 277-278: the operator answers the confirmation
Confirm ==
  /\ pc = "confirm"
  /\ UNCHANGED <<before, pure>>
  /\ \E response \in {"YES", "NO"} :
       /\ answer' = [button |-> response, text |-> <<>>]
       /\ pc' = IF response # "YES" THEN "done" ELSE "deleteSheets"
  /\ UNCHANGED <<sheets, dashboard, materialRow, sumRow, addRooms, config,
                 ui, trace, del, locals>>

\* deleteRooms, line 280
DeleteSheets ==
  /\ pc = "deleteSheets"
  /\ UNCHANGED <<answer, before, pure>>
  /\ sheets' = deleteSheets(sheets, selectedRooms)
  /\ trace' = trace \o deleteSheetCalls(sheets, selectedRooms)
  /\ pc' = "deleteInDashboard"
  /\ UNCHANGED <<dashboard, materialRow, sumRow, addRooms, config, ui, del,
                 locals>>

\* deleteRooms, line 281; getRange throws on a dashboard without rows and
\* nothing catches it
DeleteInDashboard ==
  /\ pc = "deleteInDashboard"
  /\ UNCHANGED <<answer, before, pure>>
  /\ IF Len(dashboard) = 0
       THEN /\ ui' = [kind |-> "exception", msgs |-> <<>>]
            /\ pc' = "done"
            /\ UNCHANGED <<dashboard, materialRow, sumRow, trace, del>>
       ELSE LET firstColumnValues ==
                  [i \in 1..Len(dashboard) |-> dashboard[i].text]
                indexes == deleteIndexes(firstColumnValues, selectedRooms)
                deleteGroups == groupAdjacentNumbers(indexes)
                left == deleteInDashboard(dashboard, selectedRooms)
            IN /\ dashboard' = [i \in 1..Len(left) |-> dashboard[left[i]]]
               /\ materialRow' = rowAfterDelete(materialRow, left)
               /\ sumRow' = rowAfterDelete(sumRow, left)
               /\ trace' = trace \o
                    <<Call("getValues", <<>>, 1, Len(dashboard))>> \o
                    [i \in 1..Len(deleteGroups) |->
                       Call("deleteRows", <<>>, deleteGroups[i][1],
                            deleteGroups[i][2])]
               /\ del' = [firstColumnValues |-> firstColumnValues,
                          deleteIndexes |-> indexes,
                          removed |-> (1..Len(dashboard)) \ Range(left)]
               /\ pc' = "uncheck"
               /\ ui' = ui
  /\ UNCHANGED <<sheets, addRooms, config, locals>>

\* The command has returned.  Both ranges are the operator's to edit before
\* the next command, which starts from what the operator enters then.
Return ==
  /\ pc = "done"
  /\ pc' = "idle"
  /\ answer' = NoAnswer
  /\ before' = NoBefore
  /\ UNCHANGED pure
  /\ addRooms' = ClearedTable
  /\ config' = UncheckedConfig
  /\ nameTemplatePairs' = <<>>
  /\ selectedRooms' = <<>>
  /\ sheetNames' = {}
  /\ renameMap' = <<>>
  /\ oldIdx' = 0
  /\ ui' = NoUi
  /\ trace' = <<>>
  /\ del' = NoDel
  /\ UNCHANGED <<sheets, dashboard, materialRow, sumRow>>

(***************************************************************************)
(* groupAdjacentNumbers on its own.                                        *)
(***************************************************************************)
NumberLists == UNION {[1..n -> 1..MaxPos] : n \in 0..MaxLen}

InitGroup ==
  /\ Installed
  /\ pc = "groupAdjacentNumbers"
  /\ args \in NumberLists
  /\ result = <<>>

GroupAdjacentNumbers ==
  /\ pc = "groupAdjacentNumbers"
  /\ result' = groupAdjacentNumbers(args)
  /\ pc' = "grouped"
  /\ UNCHANGED <<sheets, dashboard, materialRow, sumRow, addRooms, config,
                 ui, trace, del, answer, before, args, locals>>

SpecGroup == InitGroup /\ [][GroupAdjacentNumbers]_vars

(***************************************************************************)
(* createRoomPairs on its own.                                             *)
(***************************************************************************)
\* the rows a batch may hold: none of them blank in all three columns
EntryRows ==
  { <<name, template, type>> :
      name \in {<<SP>>, <<"a">>, <<SP, "a">>, <<"b">>},
      template \in {<<>>, <<"T">>},
      type \in {"", "Enkel (rekommenderad)", "Avancerad"} }

Batches == UNION {[1..n -> EntryRows] : n \in 0..MaxEntries}

\* the sheet names createRoomPairs may be given: no room yet, or room a
SheetNameSets ==
  {SheetNames(FixedSheets), SheetNames(FixedSheets) \cup {<<"a">>}}

InitPairs ==
  /\ Installed
  /\ pc = "createRoomPairs"
  /\ args \in [newRooms : Batches, sheetNames : SheetNameSets]
  /\ result = <<>>

CreateRoomPairs ==
  /\ pc = "createRoomPairs"
  /\ result' = createRoomPairs(args.newRooms, args.sheetNames)
  /\ pc' = "paired"
  /\ UNCHANGED <<sheets, dashboard, materialRow, sumRow, addRooms, config,
                 ui, trace, del, answer, before, args, locals>>

SpecPairs == InitPairs /\ [][CreateRoomPairs]_vars

(***************************************************************************)
(* Renaming the rooms of a spreadsheet that has rooms.                     *)
(***************************************************************************)
\* the batches that gave the spreadsheet its rooms: rooms a and b, room b
\* from a template sheet that exists or from one that does not
FirstBatches ==
  { << <<<<SP, "a">>, <<"T">>, "Enkel (rekommenderad)">>,
       <<<<"b">>, <<"T">>, "Avancerad">> >>,
    << <<<<SP, "a">>, <<"T">>, "Enkel (rekommenderad)">>,
       <<<<"b">>, <<"X">>, "Enkel (rekommenderad)">> >> }

\* the freshly installed dashboard
FirstDashboard ==
  <<Cell(MaterialText, Undefined), Cell(SumText, Undefined),
    Cell(FooterText, Undefined)>>

\* the spreadsheet once addNewRooms has added a first batch
InitRename ==
  /\ \E batch \in FirstBatches :
       LET pairs == createRoomPairs(batch, SheetNames(FixedSheets))
                      .nameTemplatePairs
           ss == createNewRoomSheets(FixedSheets, FirstDashboard, pairs)
       IN /\ sheets = ss
          /\ dashboard =
               addNewRoomsToDashboard(ss, FirstDashboard, 2,
                                      [i \in 1..Len(pairs) |-> pairs[i][1]])
          /\ materialRow = 1
          /\ sumRow = rowAfterInsert(2, 2, Len(pairs))
  /\ addRooms = ClearedTable
  /\ config = UncheckedConfig
  /\ nameTemplatePairs = <<>>
  /\ selectedRooms = <<>>
  /\ sheetNames = {}
  /\ renameMap = <<>>
  /\ oldIdx = 0
  /\ ui = NoUi
  /\ trace = <<>>
  /\ del = NoDel
  /\ answer = NoAnswer
  /\ before = NoBefore
  /\ pc = "idle"
  /\ args = <<>>
  /\ result = <<>>

\* what the operator may type into a prompt, a name no room has among them
NewNameTexts == PromptTexts \cup {<<"c">>}

PromptNewName == PromptFor(NewNameTexts)

\* the operator gives a name that is taken into the map, or cancels
AcceptedOrCancelled ==
  PromptNewName /\ (pc' # "prompt" \/ oldIdx' # oldIdx)

NextRename ==
  \/ RenameRooms
  \/ PromptNewName
  \/ RenameSheets
  \/ RenameInDashboard
  \/ Uncheck
  \/ Return

SpecRename == InitRename /\ [][NextRename]_vars

\* the script runs on once the operator has answered, and the operator does
\* not answer with rejected names for ever
FairRename ==
  /\ SpecRename
  /\ WF_vars(RenameSheets)
  /\ WF_vars(RenameInDashboard)
  /\ WF_vars(Uncheck)
  /\ WF_vars(AcceptedOrCancelled)

(***************************************************************************)
(* The variant of the script that adds one room at a time                  *)
(* (src/unnamed/part_000).                                                 *)
(***************************************************************************)
\* the sheets of a spreadsheet of this variant: one template and the
\* dashboard, here named Sammanfattning
SingleSheets ==
  { [name |-> <<"T", SP, "(mall)">>, id |-> 1],
    [name |-> <<"Sammanfattning">>, id |-> 2] }

\* what the operator may type into one row of the AddRooms range of this
\* variant: [roomName, template]; the third column is not there and reads ""
SingleRows ==
  { BlankRow,
    <<<<SP, "a">>, <<"T">>, "">>,
    <<<<"b">>, <<"T">>, "">>,
    <<<<"b">>, <<"X">>, "">>,
    <<<<SP>>, <<>>, "">> }

SingleTables == [1..MaxBatch -> SingleRows]

\* createRoomNameAndTemplatePair(newRoom, sheetNames): errors is what it
\* throws, <<>> when it returns the pair
createRoomNameAndTemplatePair(newRoom, names) ==
  LET roomName == trim(newRoom[1]) IN
    [ errors |->
        (IF roomName = <<>> THEN <<Msg("Namn saknas", 0, <<>>)>> ELSE <<>>)
        \o (IF newRoom[2] = <<>>
              THEN <<Msg("Mall saknas", 0, <<>>)>> ELSE <<>>)
        \o (IF roomName \in names
              THEN <<Msg("Rum finns redan", 0, <<roomName>>)>> ELSE <<>>),
      pair |-> <<roomName, newRoom[2] \o <<SP, "(mall)">> >> ]

InitSingle ==
  /\ sheets = SingleSheets
  /\ dashboard = FirstDashboard
  /\ materialRow = 1
  /\ sumRow = 2
  /\ addRooms = ClearedTable
  /\ config = UncheckedConfig
  /\ nameTemplatePairs = <<>>
  /\ selectedRooms = <<>>
  /\ sheetNames = {}
  /\ renameMap = <<>>
  /\ oldIdx = 0
  /\ ui = NoUi
  /\ trace = <<>>
  /\ del = NoDel
  /\ answer = NoAnswer
  /\ before = NoBefore
  /\ pc = "idle"
  /\ args = <<>>
  /\ result = <<>>

\* addNewRooms of this variant, lines 81-92: newRoomRow is the first
\* non-blank row; with no such row it is undefined, newRoomRow[0] throws a
\* TypeError and line 97 alerts its message
AddNewRoom ==
  /\ pc = "idle"
  /\ answer' = NoAnswer
  /\ UNCHANGED pure
  /\ \E table \in SingleTables :
       LET nonBlankRows == SelectSeq(Seq1(table), NonBlank)
       IN /\ Len(dashboard) + 1 <= MaxRows
          /\ addRooms' = table
          /\ before' = Found(table)
          /\ IF nonBlankRows = <<>>
               THEN /\ ui' = Alert(<<Msg("TypeError", 0, <<>>)>>)
                    /\ pc' = "done"
                    /\ nameTemplatePairs' = <<>>
               ELSE LET newRoomRow == nonBlankRows[1]
                        r == createRoomNameAndTemplatePair(newRoomRow,
                                                           SheetNames(sheets))
                    IN IF newRoomRow[1] = <<>> /\ newRoomRow[2] = <<>>
                         THEN /\ ui' = Toast("Inga nya rum att lagga till")
                              /\ pc' = "done"
                              /\ nameTemplatePairs' = <<>>
                         ELSE IF r.errors # <<>>
                           THEN /\ ui' = Alert(r.errors)
                                /\ pc' = "done"
                                /\ nameTemplatePairs' = <<>>
                           ELSE /\ ui' = NoUi
                                /\ pc' = "createNewRoomSheets"
                                /\ nameTemplatePairs' = <<r.pair>>
  /\ trace' = <<>>
  /\ del' = NoDel
  /\ UNCHANGED <<sheets, dashboard, materialRow, sumRow, config,
                 selectedRooms, sheetNames, renameMap, oldIdx>>

\* lines 93-95 of this variant are lines 119-121 of the batch script for a
\* batch of one
NextSingle ==
  \/ AddNewRoom
  \/ CreateNewRoomSheets
  \/ AddNewRoomsToDashboard
  \/ ClearContent
  \/ Return

SpecSingle == InitSingle /\ [][NextSingle]_vars

(***************************************************************************)
(* deleteInDashboard on its own.                                           *)
(***************************************************************************)
\* the texts a first column may hold: three room names and another text
ColumnTexts == {<<"a">>, <<"b">>, <<"c">>, SumText}

\* the first columns of a dashboard with at least one row
Columns == UNION {[1..n -> ColumnTexts] : n \in 1..MaxColumn}

NameLists == UNION {[1..n -> ColumnTexts \ {SumText}] : n \in 0..MaxNames}

InitDelete ==
  /\ Installed
  /\ pc = "deleteRows"
  /\ args \in [firstColumnValues : Columns, roomNames : NameLists]
  /\ result = <<>>

\* deleteInDashboard(ss, roomNames) on a dashboard with the given first
\* column: result is the first column afterwards
DeleteRowsOfNames ==
  /\ pc = "deleteRows"
  /\ LET column == args.firstColumnValues
         left == deleteInDashboard(
                   [i \in 1..Len(column) |-> Cell(column[i], Undefined)],
                   args.roomNames)
     IN result' = [i \in 1..Len(left) |-> column[left[i]]]
  /\ pc' = "deleted"
  /\ UNCHANGED <<sheets, dashboard, materialRow, sumRow, addRooms, config,
                 ui, trace, del, answer, before, args, locals>>

SpecDelete == InitDelete /\ [][DeleteRowsOfNames]_vars

(***************************************************************************)
(* Adding rooms and deleting them again.                                   *)
(***************************************************************************)
\* the first-column text of a row above the material row, which a room may
\* be named after
HeaderText == <<"a">>

\* the dashboards a spreadsheet without rooms may have: the two boundary
\* rows and the row below them, with or without a row above them
EmptyDashboards ==
  { [dashboard |-> FirstDashboard, materialRow |-> 1, sumRow |-> 2],
    [dashboard |-> <<Cell(HeaderText, Undefined)>> \o FirstDashboard,
     materialRow |-> 2, sumRow |-> 3] }

\* a spreadsheet without rooms; args keeps what it was like
InitRoundTrip ==
  /\ \E d \in EmptyDashboards :
       /\ dashboard = d.dashboard
       /\ materialRow = d.materialRow
       /\ sumRow = d.sumRow
       /\ args = [sheets |-> FixedSheets, dashboard |-> d.dashboard,
                  materialRow |-> d.materialRow, sumRow |-> d.sumRow]
  /\ sheets = FixedSheets
  /\ addRooms = ClearedTable
  /\ config = UncheckedConfig
  /\ nameTemplatePairs = <<>>
  /\ selectedRooms = <<>>
  /\ sheetNames = {}
  /\ renameMap = <<>>
  /\ oldIdx = 0
  /\ ui = NoUi
  /\ trace = <<>>
  /\ del = NoDel
  /\ answer = NoAnswer
  /\ before = NoBefore
  /\ pc = "idle"
  /\ result = <<>>

NextRoundTrip ==
  \/ AddNewRooms
  \/ CreateNewRoomSheets
  \/ AddNewRoomsToDashboard
  \/ ClearContent
  \/ DeleteRooms
  \/ Confirm
  \/ DeleteSheets
  \/ DeleteInDashboard
  \/ Uncheck
  \/ Return

SpecRoundTrip == InitRoundTrip /\ [][NextRoundTrip]_vars

(***************************************************************************)
(* The spreadsheet and its operator.                                       *)
(***************************************************************************)
Next ==
  \/ AddNewRooms
  \/ CreateNewRoomSheets
  \/ AddNewRoomsToDashboard
  \/ ClearContent
  \/ RenameRooms
  \/ Prompt
  \/ RenameSheets
  \/ RenameInDashboard
  \/ Uncheck
  \/ DeleteRooms
  \/ Confirm
  \/ DeleteSheets
  \/ DeleteInDashboard
  \/ Return

Spec == Init /\ [][Next]_vars

(***************************************************************************)
(* Properties.                                                             *)
(***************************************************************************)
StrictlyAscending(s) == \A i \in 1..(Len(s) - 1) : s[i] < s[i + 1]

\* the rows start..start+count-1 of a group
Run(g) == g[1]..(g[1] + g[2] - 1)

\* the deleteRows calls of the running command, in the order made
DeleteRowsCalls == SelectSeq(trace, LAMBDA c : c.op = "deleteRows")

\* the rows strictly between the two boundary rows
Band ==
  IF materialRow # 0 /\ sumRow # 0
    THEN SubSeq(dashboard, materialRow + 1, sumRow - 1) ELSE <<>>

\* the names of the room sheets
RoomSheetNames == SheetNames(sheets) \ SheetNames(FixedSheets)

\* the rows of a table that addNewRooms keeps, names trimmed
Entries(table) ==
  LET rows == SelectSeq(table, NonBlank)
  IN [i \in 1..Len(rows) |-> <<trim(rows[i][1]), rows[i][2], rows[i][3]>>]

\* some entry of the batch fails validation
BatchInvalid(table, ss) ==
  LET e == Entries(table) IN
    \E i \in 1..Len(e) :
      \/ e[i][1] = <<>>
      \/ e[i][2] = <<>>
      \/ e[i][3] = ""
      \/ e[i][1] \in SheetNames(ss)
      \/ \E j \in 1..Len(e) : j # i /\ e[j][1] = e[i][1]

\* C1: every row a deleteRows call of deleteInDashboard removes held, in the
\* first column read at the start of the call, one of the requested names.
C1_RemovedRowsWereRequested ==
  \A r \in del.removed : del.firstColumnValues[r] \in Range(selectedRooms)

\* C2: the row numbers deleteInDashboard hands to groupAdjacentNumbers are
\* strictly ascending, and its deleteRows calls come in strictly descending
\* start position.
C2_IndexesAscendCallsDescend ==
  /\ StrictlyAscending(del.deleteIndexes)
  /\ \A i \in 1..(Len(DeleteRowsCalls) - 1) :
       DeleteRowsCalls[i].row > DeleteRowsCalls[i + 1].row

\* C3: for a strictly ascending list the runs of the groups returned cover
\* exactly the numbers of the list, no number twice, and the starts strictly
\* decrease along the list returned.
C3_GroupsCoverInput ==
  (pc = "grouped" /\ StrictlyAscending(args)) =>
    /\ UNION {Run(result[i]) : i \in 1..Len(result)} = Range(args)
    /\ \A i, j \in 1..Len(result) :
         i # j => Run(result[i]) \cap Run(result[j]) = {}
    /\ \A i \in 1..(Len(result) - 1) : result[i][1] > result[i + 1][1]

C3_Witness ==
  /\ pc = "grouped"
  /\ StrictlyAscending(args)
  /\ Len(result) >= 2
  /\ \E i \in 1..Len(result) : result[i][2] >= 2

\* C4: for a strictly ascending list the groups returned are maximal runs:
\* a gap lies between any two of them, every count is at least 1, the empty
\* list gives no group, one number x gives <<x, 1>> alone, and n consecutive
\* numbers from s on give <<s, n>> alone.
C4_GroupsAreMaximalRuns ==
  (pc = "grouped" /\ StrictlyAscending(args)) =>
    /\ \A i, j \in 1..Len(result) :
         i < j => result[j][1] + result[j][2] < result[i][1]
    /\ \A i \in 1..Len(result) : result[i][2] >= 1
    /\ args = <<>> => result = <<>>
    /\ Len(args) = 1 => result = << <<args[1], 1>> >>
    /\ (Len(args) >= 1 /\ \A i \in 1..Len(args) : args[i] = args[1] + i - 1)
         => result = << <<args[1], Len(args)>> >>

C4_Witness ==
  /\ pc = "grouped"
  /\ StrictlyAscending(args)
  /\ Len(args) >= 3
  /\ Len(result) = 1

\* C5: no row of the dashboard outside the band strictly between the
\* material row and the sum row is ever deleted or changed, and both
\* boundary rows stay, the material row above the sum row.
C5_RowsOutsideBandUntouched ==
  /\ materialRow >= 1
  /\ sumRow > materialRow
  /\ sumRow <= Len(dashboard)
  /\ SubSeq(dashboard, 1, materialRow) = <<Cell(MaterialText, Undefined)>>
  /\ SubSeq(dashboard, sumRow, Len(dashboard)) =
       <<Cell(SumText, Undefined), Cell(FooterText, Undefined)>>

\* C6: between commands every band row carries the name of exactly one room
\* sheet and every room sheet has exactly one band row.
C6_RoomsAndRowsCorrespond ==
  pc = "idle" =>
    /\ \A i, j \in 1..Len(Band) : Band[i].text = Band[j].text => i = j
    /\ {Band[i].text : i \in 1..Len(Band)} = RoomSheetNames

\* C7: room names are unique: no two sheets share a name and no two band
\* rows carry the same label.
C7_RoomNamesUnique ==
  /\ \A s, t \in sheets : s.name = t.name => s = t
  /\ \A i, j \in 1..Len(Band) : Band[i].text = Band[j].text => i = j

\* C8: when addNewRooms has inserted the rows of a batch, every name it
\* inserted is the name of an existing sheet.
C8_RowsOnlyForExistingSheets ==
  pc = "clearContent" =>
    \A i \in 1..Len(nameTemplatePairs) :
      HasSheet(sheets, nameTemplatePairs[i][1])

\* C9: an AddRooms batch with an entry that fails validation (blank name,
\* blank template, blank kind, name of an existing sheet, name repeated in
\* the batch) ends at once with an alert of the error text: no sheet copied,
\* no dashboard row inserted or written, the AddRooms range not cleared.
C9_InvalidBatchChangesNothing ==
  (pc # "idle" /\ BatchInvalid(before.addRooms, before.sheets)) =>
    /\ pc = "done"
    /\ ui.kind = "alert" /\ ui.msgs # <<>>
    /\ trace = <<>>
    /\ sheets = before.sheets
    /\ dashboard = before.dashboard
    /\ addRooms = before.addRooms

\* a batch of a valid entry and an entry without a name has been refused
C9_Witness ==
  /\ pc = "done"
  /\ ui.kind = "alert"
  /\ Len(Entries(addRooms)) = 2
  /\ Entries(addRooms)[1][1] = <<"a">>
  /\ Entries(addRooms)[2][1] = <<>>
  /\ ~HasSheet(sheets, <<"a">>)

\* C10: once the operator has cancelled a prompt of renameRooms the command
\* is over and has renamed no sheet, changed no dashboard cell and left the
\* ticked rows ticked, however many names it had accepted.
C10_CancelChangesNothing ==
  answer.button = "CANCEL" =>
    /\ pc = "done"
    /\ trace = <<>>
    /\ sheets = before.sheets
    /\ dashboard = before.dashboard
    /\ config # UncheckedConfig
    /\ [i \in 1..Len(config) |-> config[i][2]] = selectedRooms

\* the operator cancels the second prompt, after a rejected name, the first
\* name having been accepted
C10_Witness ==
  /\ answer.button = "CANCEL"
  /\ Len(selectedRooms) = 2
  /\ oldIdx = 2
  /\ ui.kind = "alert"
  /\ HasSheet(sheets, selectedRooms[1])

\* the trimmed names of a batch, in entry order
TrimmedNames(newRooms) == [i \in 1..Len(newRooms) |-> trim(newRooms[i][1])]

\* how often x occurs in arr
Count(arr, x) == Cardinality({i \in 1..Len(arr) : arr[i] = x})

\* the suffix token of a kind
Suffix(type) == IF type = "Avancerad" THEN "(avancerad)" ELSE "(enkel)"

\* every entry of the batch passes every check
BatchValid(newRooms, names) ==
  LET t == TrimmedNames(newRooms) IN
    /\ \A i \in 1..Len(newRooms) :
         /\ t[i] # <<>>
         /\ newRooms[i][2] # <<>>
         /\ newRooms[i][3] # ""
         /\ t[i] \notin names
    /\ \A i, j \in 1..Len(newRooms) : t[i] = t[j] => i = j

Fails(row, check, names) ==
  CASE check = 1 -> trim(row[1]) = <<>>
    [] check = 2 -> row[2] = <<>>
    [] check = 3 -> row[3] = ""
    [] OTHER -> trim(row[1]) \in names

\* the message of a failed check
Message(row, index, check) ==
  CASE check = 1 -> Msg("Namn saknas till rum", index, <<>>)
    [] check = 2 -> Msg("Mall saknas till rum", index, <<>>)
    [] check = 3 -> Msg("Budgeteringsalternativ saknas till rum", index, <<>>)
    [] OTHER -> Msg("Rum finns redan", 0, <<trim(row[1])>>)

\* the messages of all failing checks, entry by entry, check by check
FailedChecks(newRooms, names) ==
  LET n == Len(newRooms)
      entry(k) == ((k - 1) \div 4) + 1
      check(k) == ((k - 1) % 4) + 1
      failing == SelectSeq([k \in 1..(4 * n) |-> k],
                           LAMBDA k : Fails(newRooms[entry(k)], check(k), names))
  IN [m \in 1..Len(failing) |->
        Message(newRooms[entry(failing[m])], entry(failing[m]),
                check(failing[m]))]

\* some trimmed name occurs twice in the batch
NameRepeats(newRooms) ==
  \E i, j \in 1..Len(newRooms) :
    i # j /\ trim(newRooms[i][1]) = trim(newRooms[j][1])

\* C12: what createRoomPairs throws holds one message for every failing check
\* of every entry, in entry order, and after them one duplicates message
\* exactly when a trimmed name repeats: no message is left out because of an
\* earlier one.
C12_AllErrorsReported ==
  pc = "paired" =>
    LET expected == FailedChecks(args.newRooms, args.sheetNames)
        n == Len(expected)
    IN /\ Len(result.error) >= n
       /\ SubSeq(result.error, 1, n) = expected
       /\ IF NameRepeats(args.newRooms)
            THEN /\ Len(result.error) = n + 1
                 /\ result.error[n + 1].text = "Rumnamn upprepas"
            ELSE Len(result.error) = n

\* a batch of three entries with at least five messages, the first about
\* entry 1, one about entry 3, one about an existing room, the last about
\* repeated names
C12_Witness ==
  /\ pc = "paired"
  /\ Len(args.newRooms) = 3
  /\ Len(result.error) >= 5
  /\ result.error[1].index = 1
  /\ \E k \in 1..Len(result.error) : result.error[k].index = 3
  /\ \E k \in 1..Len(result.error) : result.error[k].text = "Rum finns redan"
  /\ result.error[Len(result.error)].text = "Rumnamn upprepas"

\* C13: every name that occurs more than once in the batch is named exactly
\* once in the one duplicates message, and a name that repeats in the batch
\* but is no sheet name earns no "Rum finns redan" message.
C13_DuplicateNamedOnce ==
  pc = "paired" =>
    LET t == TrimmedNames(args.newRooms)
        dups == SelectSeq(result.error, LAMBDA m : m.text = "Rumnamn upprepas")
    IN \A i \in 1..Len(t) :
         Count(t, t[i]) > 1 =>
           /\ Len(dups) = 1
           /\ Count(dups[1].names, t[i]) = 1
           /\ t[i] \notin args.sheetNames =>
                \A k \in 1..Len(result.error) :
                  ~(result.error[k].text = "Rum finns redan"
                      /\ result.error[k].names = <<t[i]>>)

\* the failure kind of a name proposed for oldName, "" if it is acceptable:
\* blank first, then taken by a sheet of the snapshot, then assigned earlier
\* in the batch
FailureKind(proposed, snapshot, assigned) ==
  IF trim(proposed) = <<>> THEN "Namn saknas till rum"
  ELSE IF trim(proposed) \in snapshot THEN "Rum finns redan"
  ELSE IF trim(proposed) \in assigned THEN "Du har redan angett"
  ELSE ""

\* the new names taken into the map so far
Assigned(map) == {map[i][2] : i \in 1..Len(map)}

\* C14: a name typed into a prompt of renameRooms is taken into the map only
\* if, trimmed, it is not blank, is no sheet name of the snapshot taken when
\* the command started and is no new name taken earlier in the batch; a name
\* not taken earns exactly one alert, of the first kind that applies in the
\* order blank, taken, already given.  So the new names of the map are
\* pairwise distinct and none is a sheet name of the snapshot.
C14_OnlyAcceptableNamesAccepted ==
  /\ [][(pc = "prompt" /\ answer'.button = "OK") =>
         LET snapshot == SheetNames(before.sheets)
             oldName == selectedRooms[oldIdx]
             kind == FailureKind(answer'.text, snapshot, Assigned(renameMap))
         IN IF kind = ""
              THEN /\ mapHas(renameMap', oldName)
                   /\ mapGet(renameMap', oldName) = trim(answer'.text)
                   /\ ui'.kind # "alert"
              ELSE /\ renameMap' = renameMap
                   /\ ui'.kind = "alert"
                   /\ Len(ui'.msgs) = 1
                   /\ ui'.msgs[1].text = kind]_vars
  /\ [](/\ \A i, j \in 1..Len(renameMap) :
             renameMap[i][2] = renameMap[j][2] => i = j
        /\ pc # "idle" =>
             Assigned(renameMap) \cap SheetNames(before.sheets) = {})

\* a name has been taken for the first room, and the same name, typed for
\* the second room, has been refused as already given
C14_Witness ==
  /\ pc = "prompt"
  /\ oldIdx = 2
  /\ Len(renameMap) = 1
  /\ ui.kind = "alert"
  /\ ui.msgs[1].text = "Du har redan angett"
  /\ trim(answer.text) = renameMap[1][2]

\* C15: a refused name does not end renameRooms: the command stays at the
\* prompt for the same old name with the map as it was, and goes on to the
\* next old name only with a name taken into the map; and with an operator
\* who does not type refused names for ever, a command that is prompting
\* reaches its end, having renamed or been cancelled.
C15_RefusedNameAsksAgain ==
  /\ [][(pc = "prompt" /\ answer'.button = "OK") =>
         IF ui'.kind = "alert"
           THEN /\ pc' = "prompt"
                /\ oldIdx' = oldIdx
                /\ selectedRooms' = selectedRooms
                /\ renameMap' = renameMap
           ELSE /\ mapHas(renameMap', selectedRooms[oldIdx])
                /\ \/ pc' = "prompt" /\ oldIdx' = oldIdx + 1
                   \/ pc' = "renameSheets" /\ oldIdx = Len(selectedRooms)]_vars
  /\ (pc = "prompt") ~> (pc = "done")

\* the second room is being asked for again after a refused name, the first
\* room having got its new name
C15_Witness ==
  /\ pc = "prompt"
  /\ oldIdx = 2
  /\ Len(renameMap) = 1
  /\ renameMap[1][1] = selectedRooms[1]
  /\ ui.kind = "alert"
  /\ ui.msgs[1].text = "Rum finns redan"

\* C16: renameInDashboard gives every cell strictly between the two boundary
\* rows whose text is a key of the map the text the map has for it and leaves
\* its link as it was; every other cell of the column keeps text and link;
\* the number of rows and the rows of the two named ranges do not change.
C16_RelabelKeepsLinksAndRows ==
  [][(pc = "renameInDashboard" /\ pc' = "uncheck") =>
       /\ Len(dashboard') = Len(dashboard)
       /\ materialRow' = materialRow
       /\ sumRow' = sumRow
       /\ \A i \in 1..Len(dashboard) :
            IF i > materialRow /\ i < sumRow
                 /\ \E k \in 1..Len(renameMap) :
                      renameMap[k][1] = dashboard[i].text
              THEN /\ \E k \in 1..Len(renameMap) :
                        /\ renameMap[k][1] = dashboard[i].text
                        /\ dashboard'[i].text = renameMap[k][2]
                   /\ dashboard'[i].link = dashboard[i].link
              ELSE dashboard'[i] = dashboard[i]]_vars

\* a row of the band has been relabelled and kept its link to a sheet, and
\* the row below the sum row, whose text is a key of the map, is as it was
C16_Witness ==
  /\ pc = "uncheck"
  /\ mapHas(renameMap, FooterText)
  /\ \E i \in (materialRow + 1)..(sumRow - 1) :
       /\ dashboard[i].text # before.dashboard[i].text
       /\ dashboard[i].link = before.dashboard[i].link
       /\ dashboard[i].link # Undefined
  /\ dashboard[Len(dashboard)] = Cell(FooterText, Undefined)

\* the names of the batch addNewRooms is adding, in entry order
NewRooms == [i \in 1..Len(nameTemplatePairs) |-> nameTemplatePairs[i][1]]

\* C17: when addNewRooms has inserted a batch of N >= 1 names, the sum row
\* having been row s, the names are in rows s..s+N-1 in entry order, each
\* linked to the sheet just created for it, the sum row is row s+N and every
\* row above s is as it was.
C17_RowsInsertedAboveSumRow ==
  pc = "clearContent" =>
    LET s == before.sumRow
        N == Len(NewRooms)
    IN /\ N >= 1
       /\ \A k \in 1..N :
            /\ dashboard[s + k - 1].text = NewRooms[k]
            /\ \E sheet \in sheets \ before.sheets :
                 /\ sheet.name = NewRooms[k]
                 /\ dashboard[s + k - 1].link = sheet.id
       /\ sumRow = s + N
       /\ dashboard[sumRow] = before.dashboard[s]
       /\ \A i \in 1..(s - 1) : dashboard[i] = before.dashboard[i]

\* the calls of the running command with one of the given names
CallsOf(ops) == SelectSeq(trace, LAMBDA c : c.op \in ops)

\* C18: when renameRooms ends with a new name taken for every selected room,
\* it has renamed the sheets first, then written the band of the dashboard
\* once, then unchecked the range; and for every pair of the map the sheet
\* that was named old is named new and the band row that was labelled old is
\* labelled new.
C18_BatchRenamedEverywhere ==
  (pc = "done" /\ renameMap # <<>>) =>
    /\ Len(CallsOf({"setRichTextValues"})) = 1
    /\ trace[Len(trace)].op = "uncheck"
    /\ \A i, j \in 1..Len(trace) :
         (trace[i].op = "setName" /\ trace[j].op = "setRichTextValues")
           => i < j
    /\ \A k \in 1..Len(renameMap) :
         /\ \A sheet \in before.sheets :
              sheet.name = renameMap[k][1] =>
                [name |-> renameMap[k][2], id |-> sheet.id] \in sheets
         /\ \A i \in (before.materialRow + 1)..(before.sumRow - 1) :
              before.dashboard[i].text = renameMap[k][1] =>
                dashboard[i].text = renameMap[k][2]

\* the rows of the band the running command found whose text is one of names
BandRowsOf(names) ==
  {i \in (before.materialRow + 1)..(before.sumRow - 1) :
     before.dashboard[i].text \in Range(names)}

\* C19: deleteRooms, once confirmed, ends without an exception whatever the
\* selected names have; afterwards no selected name has a sheet, the rows
\* removed are exactly the band rows that carried a selected name, and a
\* selected name without a band row has cost no row.
C19_MissingRoomsTolerated ==
  (pc \in {"uncheck", "done"} /\ answer.button = "YES") =>
    /\ ui.kind # "exception"
    /\ \A k \in 1..Len(selectedRooms) : ~HasSheet(sheets, selectedRooms[k])
    /\ del.removed = BandRowsOf(selectedRooms)

\* C20: renameRooms and deleteRooms with no row ticked, and deleteRooms with
\* the confirmation declined, end at once having called nothing that changes
\* the spreadsheet: sheets, dashboard rows and named ranges are as the
\* command found them, and the rows ticked are still ticked.
C20_NothingSelectedOrDeclined ==
  ((pc # "idle" /\ ui = Toast("Inga rum valda")) \/ answer.button = "NO") =>
    /\ pc = "done"
    /\ trace = <<>>
    /\ del = NoDel
    /\ sheets = before.sheets
    /\ dashboard = before.dashboard
    /\ materialRow = before.materialRow
    /\ sumRow = before.sumRow
    /\ [i \in 1..Len(config) |-> config[i][2]] = selectedRooms
    /\ answer.button = "NO" => config # UncheckedConfig

\* the operator has declined to delete two rooms that have a sheet and a row
C20_Witness ==
  /\ answer.button = "NO"
  /\ Len(selectedRooms) = 2
  /\ \A k \in 1..2 :
       /\ HasSheet(sheets, selectedRooms[k])
       /\ BandRowsOf(<<selectedRooms[k]>>) # {}

\* the first rows of the maximal runs of adjacent rows in a set of rows
RunStarts(rows) == {r \in rows : r - 1 \notin rows}

\* C21: the deleteRows calls of deleteInDashboard are one per maximal run of
\* adjacent rows among the rows of the selected names, each from the first
\* row of its run over the length of the run, a run further down before a
\* run further up.
C21_OneCallPerRun ==
  LET rows == Range(del.deleteIndexes)
      calls == DeleteRowsCalls
  IN /\ Len(calls) = Cardinality(RunStarts(rows))
     /\ \A i \in 1..Len(calls) :
          /\ calls[i].row \in RunStarts(rows)
          /\ \A r \in calls[i].row..(calls[i].row + calls[i].num - 1) :
               r \in rows
          /\ calls[i].row + calls[i].num \notin rows
     /\ \A i, j \in 1..Len(calls) : i < j => calls[i].row > calls[j].row

\* the calls that read row positions of the dashboard, and those that write
\* its rows or cells
PositionReads == {"getRow", "getValues", "getRichTextValues"}
DashboardWrites == {"insertRows", "deleteRows", "setRichTextValues"}

\* C22: within a command every call that reads row positions of the
\* dashboard comes before its first call that writes the dashboard, and the
\* cells written after insertRows go to the row read before it.
C22_ReadsBeforeWrites ==
  /\ \A i, j \in 1..Len(trace) :
       (i < j /\ trace[i].op \in DashboardWrites)
         => trace[j].op \notin PositionReads
  /\ \A i, j \in 1..Len(trace) :
       (trace[i].op = "insertRows" /\ trace[j].op = "setRichTextValues")
         => /\ i < j
            /\ trace[j].row = trace[i].row
            /\ \E k \in 1..(i - 1) :
                 trace[k].op = "getRow" /\ trace[k].row = trace[i].row

\* deleteInDashboard has read the column once and then deleted two runs
C22_Witness ==
  /\ pc = "uncheck"
  /\ Len(DeleteRowsCalls) = 2
  /\ Len(CallsOf({"getValues"})) = 1
  /\ StrictlyAscending(del.deleteIndexes)

\* C23: addNewRooms run on an AddRooms range without a non-blank row ends
\* with the toast that there is nothing to add and no alert, and leaves the
\* sheets, the dashboard and the range as they were; so does the variant
\* that adds one room at a time.
C23_NothingToAddIsNoError ==
  (pc # "idle" /\ SelectSeq(before.addRooms, NonBlank) = <<>>) =>
    /\ pc = "done"
    /\ ui.kind = "toast"
    /\ trace = <<>>
    /\ sheets = before.sheets
    /\ dashboard = before.dashboard
    /\ addRooms = before.addRooms

\* the row of a column that a name matches: the first with that text, 0 if
\* there is none
FirstRow(column, name) ==
  IF \E i \in 1..Len(column) : column[i] = name
    THEN CHOOSE i \in 1..Len(column) :
           column[i] = name /\ \A j \in 1..(i - 1) : column[j] # name
    ELSE 0

\* the names are pairwise distinct and those with a row are listed in the
\* order of their rows from the top
DistinctTopDown(column, names) ==
  /\ \A k, l \in 1..Len(names) : names[k] = names[l] => k = l
  /\ \A k, l \in 1..Len(names) :
       (k < l /\ FirstRow(column, names[k]) # 0
              /\ FirstRow(column, names[l]) # 0)
         => FirstRow(column, names[k]) < FirstRow(column, names[l])

\* C24: for pairwise distinct names listed in the order of their rows from
\* the top, the first column after deleteInDashboard is the first column
\* before without the rows the names match, the other rows in the order
\* they had.
C24_OrderedDeleteRemovesMatches ==
  (pc = "deleted"
     /\ DistinctTopDown(args.firstColumnValues, args.roomNames)) =>
    LET column == args.firstColumnValues
        matched == {FirstRow(column, args.roomNames[k]) :
                      k \in 1..Len(args.roomNames)}
        kept == SelectSeq([i \in 1..Len(column) |-> i],
                          LAMBDA i : i \notin matched)
    IN result = [i \in 1..Len(kept) |-> column[kept[i]]]

\* three names in row order, two of their rows adjacent and one apart, and
\* a row that stays
C24_Witness ==
  /\ pc = "deleted"
  /\ DistinctTopDown(args.firstColumnValues, args.roomNames)
  /\ Len(args.roomNames) = 3
  /\ Len(args.firstColumnValues) = 4
  /\ FirstRow(args.firstColumnValues, args.roomNames[1]) = 1
  /\ FirstRow(args.firstColumnValues, args.roomNames[2]) = 3
  /\ FirstRow(args.firstColumnValues, args.roomNames[3]) = 4
  /\ Len(result) = 1

\* what the running command found is the spreadsheet kept in args with n
\* rooms added by one addNewRooms, every one with its sheet
AddedOnce(n) ==
  LET s == args.sumRow IN
    /\ n >= 1
    /\ Len(before.dashboard) = Len(args.dashboard) + n
    /\ before.materialRow = args.materialRow
    /\ before.sumRow = s + n
    /\ SubSeq(before.dashboard, 1, s - 1) = SubSeq(args.dashboard, 1, s - 1)
    /\ SubSeq(before.dashboard, s + n, Len(before.dashboard)) =
         SubSeq(args.dashboard, s, Len(args.dashboard))
    /\ args.sheets \subseteq before.sheets
    /\ Cardinality(before.sheets \ args.sheets) = n
    /\ \A k \in 1..n :
         \E sheet \in before.sheets \ args.sheets :
           before.dashboard[s + k - 1] = Cell(sheet.name, sheet.id)
    /\ \A k, l \in 1..n :
         before.dashboard[s + k - 1].text = before.dashboard[s + l - 1].text
           => k = l

\* C25: deleteRooms, confirmed, for exactly the names one addNewRooms added
\* with a sheet each, in the order added, leaves the sheet names, the first
\* column of the dashboard and the rows of both boundary rows as they were
\* before that addNewRooms.
C25_AddThenDeleteRestores ==
  LET n == Len(before.dashboard) - Len(args.dashboard) IN
    (pc = "uncheck" /\ answer.button = "YES" /\ AddedOnce(n)
       /\ selectedRooms =
            [k \in 1..n |-> before.dashboard[args.sumRow + k - 1].text]) =>
      /\ SheetNames(sheets) = SheetNames(args.sheets)
      /\ dashboard = args.dashboard
      /\ materialRow = args.materialRow
      /\ sumRow = args.sumRow

\* C26: a name typed for a room that is, trimmed, the name the room has is
\* never taken into the rename map: every pair of the map has a new name
\* that differs from the old one.
C26_RenameChangesName ==
  \A k \in 1..Len(renameMap) : renameMap[k][1] # renameMap[k][2]

====
